---- MODULE Spec2Model ----
(***************************************************************************)
(* A model of package progress (progress.go): a progress bar that is       *)
(* posted to a slack channel once and then edited in place.                *)
(*                                                                         *)
(* The slack client is the environment.  SendMessage and UpdateMessage     *)
(* either succeed, returning a channel and a non-empty timestamp, or fail, *)
(* returning empty strings and an error.                                   *)
(***************************************************************************)
EXTENDS Integers, Sequences, FiniteSets, TLC

VARIABLES
    Opts,       \* Progress.Opts, never written after New
    channel,    \* Progress.channel
    ts,         \* Progress.ts
    lastPct,    \* Progress.lastPct
    last,       \* the most recent call of Update: input, state before, call made, result
    posted,     \* a SendMessage has succeeded on this tracker
    lastOutPct, \* percentage carried by the latest successful Send or Edit, -1 if none
    issued,     \* channel and timestamp of the message as the client last returned them
    returned,   \* channel and timestamp returned by the most recent call of the client
    nanInt,     \* what int(NaN) is in this build of the program
    edits,      \* how many times UpdateMessage has been called
    race,       \* two calls of Update running at once: where each is, the messages posted
    i           \* loop variable of the README example / TestProgressBar

vars == <<Opts, channel, ts, lastPct, last, posted, lastOutPct, issued, returned, nanInt, edits, race, i>>

-----------------------------------------------------------------------------
(* Bounds of the model *)

\* custom Options take TotalUnits in 0..MaxTotalUnits
MaxTotalUnits == 4
\* the width of the custom Options (besides the default width)
NarrowWidth == 5
\* besides the ends of the range, Update is called with the multiples of PosStride
PosStride == 25
\* the largest time since Start, in milliseconds
MaxElapsedMs == 20
\* drawBar is applied with the widths 1..MaxBarWidth
MaxBarWidth == 12
\* the percentage is computed for TotalUnits in 1..MaxPctTotalUnits
MaxPctTotalUnits == 100

-----------------------------------------------------------------------------
(* Program constants *)

DefaultWidth == 10
DefaultTotalUnits == 100
Millisecond == 1000000
Second == 1000000000

ErrNil == "nil"
ErrNegativePos == "Invalid position"
ErrMaxPosExceeded == "Maximum position exceeded"
ErrTemplate == "template: msg: parse error"
ErrTransport == "slack: request failed"
Panic == "panic"

DefaultMsg == "Task ProgBar Pos% [if ShowEstTime: if Complete: Completed in Elapsed, else: Remaining remaining...]"
MalformedMsg == "unclosed action"

DefaultOptions(task) ==
    [ Fill        |-> <<"#">>,
      Empty       |-> <<"-">>,
      Width       |-> DefaultWidth,
      TotalUnits  |-> DefaultTotalUnits,
      Msg         |-> DefaultMsg,
      Task        |-> task,
      ShowEstTime |-> TRUE ]

\* Options a caller may pass to New instead of nil
CustomOptions ==
    { [ Fill        |-> f,
        Empty       |-> <<"-">>,
        Width       |-> w,
        TotalUnits  |-> t,
        Msg         |-> m,
        Task        |-> "Task",
        ShowEstTime |-> s ] :
      f \in {<<"#">>, <<"=", ">">>},
      w \in {NarrowWidth, DefaultWidth},
      t \in 0 .. MaxTotalUnits,
      m \in {DefaultMsg, MalformedMsg},
      s \in BOOLEAN }

-----------------------------------------------------------------------------
(* float32 arithmetic of line 72 *)

\* round n / d to the nearest integer, ties to even
RoundHalfEven(n, d) ==
    LET q == n \div d
        r == n % d
    IN  IF 2 * r > d \/ (2 * r = d /\ q % 2 = 1) THEN q + 1 ELSE q

\* the least s with n * 2^s / d >= 2^23, so that the quotient has 24 bits
RECURSIVE Shift(_, _, _)
Shift(n, d, s) == IF n >= d * 2^23 THEN s ELSE Shift(2 * n, d, s + 1)

\* float32(m / 2^s) * 100, truncated: the product is rounded to 24 bits
MulTrunc(m, s) ==
    LET k == IF m * 100 >= 2^30 THEN 7 ELSE 6
    IN  (RoundHalfEven(m * 100, 2^k) * 2^k) \div 2^s

\* float32(pos) / float32(total): the quotient m / 2^s, m rounded to 24 bits
DivMul(pos, total, s) == MulTrunc(RoundHalfEven(pos * 2^s, total), s)

\* int(float32(pos) / float32(total) * 100) for total >= 1; the rounding is
\* symmetric and the conversion truncates towards zero
float32Percent(pos, total) ==
    IF pos = 0 THEN 0
    ELSE IF pos < 0 THEN -DivMul(-pos, total, Shift(-pos, total, 0))
    ELSE DivMul(pos, total, Shift(pos, total, 0))

TotalUnitsChoices ==
    {DefaultTotalUnits} \cup (1 .. MaxTotalUnits) \cup (1 .. MaxPctTotalUnits)

\* float32Percent, evaluated once for the totals and positions of the model
PercentTable ==
    [t \in TotalUnitsChoices |-> [p \in -1 .. t + 1 |-> float32Percent(p, t)]]

\* TLC's integers are 32 bits wide: MinInt and MaxInt stand for the least and
\* the greatest int (-2^63 and 2^63 - 1), MaxAlloc for the longest string the
\* runtime allocates (2^48 bytes)
MinInt == -(2^30)
MaxInt == 2^30
MaxAlloc == 2^15

\* float32(0) / float32(0) is NaN, and the conversion of NaN to int is
\* implementation-dependent: the least int, zero or the greatest int
NaNToInt == {MinInt, 0, MaxInt}

\* pct of line 72; with TotalUnits = 0 only position 0 passes lines 64-70
Percent(pos, total) == IF total = 0 THEN nanInt ELSE PercentTable[total][pos]

-----------------------------------------------------------------------------
(* drawBar, remaining, msg *)

RECURSIVE Repeat(_, _)
Repeat(s, count) == IF count <= 0 THEN <<>> ELSE s \o Repeat(s, count - 1)

\* strings.Repeat panics on a negative count and on a result too long to
\* allocate
RepeatPanics(s, count) == count < 0 \/ Len(s) * count > MaxAlloc

drawBarPanics(pos) ==
    /\ pos # 0
    /\ \/ RepeatPanics(Opts.Fill, pos \div Opts.Width)
       \/ Opts.Width - Len(Repeat(Opts.Fill, pos \div Opts.Width)) < 0

\* the bar scaled by percentage / 100 instead of percentage / Width
drawBarByHundred(pos) ==
    IF pos = 0
    THEN Repeat(Opts.Empty, Opts.Width)
    ELSE LET bar == Repeat(Opts.Fill, (pos * Opts.Width) \div 100)
         IN  bar \o Repeat(Opts.Empty, Opts.Width - Len(bar))

drawBar(pos) ==
    IF pos = 0
    THEN Repeat(Opts.Empty, Opts.Width)
    ELSE LET bar == Repeat(Opts.Fill, pos \div Opts.Width)
         IN  bar \o Repeat(Opts.Empty, Opts.Width - Len(bar))

\* time.Duration.Round for d >= 0 or d < 0, halfway values away from zero
Round(d, m) ==
    LET a == IF d < 0 THEN -d ELSE d
        r == a % m
        x == IF r + r < m THEN a - r ELSE (a - r) + m
    IN  IF d < 0 THEN -x ELSE x

\* the integer division panics when pct is 0
remainingPanics(pct) == pct = 0

remaining(pct, elapsed) ==
    LET estTime == (elapsed \div pct) * 100
    IN  Round(estTime - elapsed, Second)

\* template.Parse fails on a malformed template
ParseFails(tmpl) == tmpl # DefaultMsg

\* the text the default template renders from the data map
msg(pos, elapsed) ==
    [ Task     |-> Opts.Task,
      ProgBar  |-> drawBar(pos),
      Pos      |-> pos,
      Complete |-> pos = 100,
      Tail     |-> IF ~Opts.ShowEstTime THEN <<>>
                   ELSE IF pos = 100
                        THEN <<"Completed in", Round(elapsed, Millisecond)>>
                        ELSE <<remaining(pos, elapsed), "remaining...">> ]

-----------------------------------------------------------------------------
(* The slack client *)

Channels == {"demo", "C1"}
Timestamps == {"t1", "t2"}

\* what SendMessage / UpdateMessage return: (channel, timestamp, err)
Responses ==
    [ok : {TRUE}, channel : Channels, ts : Timestamps]
      \cup { [ok |-> FALSE, channel |-> "", ts |-> ""] }

ElapsedChoices == {0, MaxElapsedMs * Millisecond - 400000}

Positions ==
    { p \in -1 .. Opts.TotalUnits + 1 :
        p <= 1 \/ p >= Opts.TotalUnits - 1 \/ p % PosStride = 0 }

NoCall == [op |-> "none"]

\* the fields of Progress that Update writes
State == [channel |-> channel, ts |-> ts, lastPct |-> lastPct]

\* what is recorded of a call of Update: its input, the state it started in,
\* the call it made of the client and what it returned
Record(pos, call, err) ==
    [ pos        |-> pos,
      first      |-> (last.ret = "new"),
      pre        |-> State,
      prePosted  |-> posted,
      preOutPct  |-> lastOutPct,
      preIssued  |-> issued,
      preReturned |-> returned,
      prevOutPct |-> IF last.call.op # "none" /\ last.call.ok
                     THEN last.call.pct ELSE -1,
      call       |-> call,
      ret        |-> err ]

\* the callers of Update when the calls are not serialized
Goroutines == {"a", "b"}

\* no call of Update has begun, no message is in the channel, ts was never written
NoRace ==
    [ g        |-> [ x \in Goroutines |-> [pc |-> "idle"] ],
      messages |-> 0,
      writes   |-> 0 ]

-----------------------------------------------------------------------------
(* New and Update *)

New(chan, opts) ==
    /\ Opts = opts
    /\ channel = chan
    /\ ts = ""
    /\ lastPct = 0

Init ==
    /\ \E opts \in {DefaultOptions("Unknown Task")} \cup CustomOptions :
          New("demo", opts)
    /\ last = [ pos |-> 0, first |-> FALSE, pre |-> State, prePosted |-> FALSE,
                preOutPct |-> -1, preIssued |-> <<"", "">>, preReturned |-> <<"", "">>,
                prevOutPct |-> -1,
                call |-> NoCall, ret |-> "new" ]
    /\ posted = FALSE
    /\ lastOutPct = -1
    /\ issued = <<"", "">>
    /\ returned = <<"", "">>
    /\ nanInt \in (IF Opts.TotalUnits = 0 THEN NaNToInt ELSE {0})
    /\ edits = 0
    /\ race = NoRace
    /\ i = 0

\* the check of line 64 off by one
NegativePosOffByOne(pos) == pos < -1

\* line 64
NegativePos(pos) == pos < 0

\* the check of line 68 off by one
MaxPosExceededOffByOne(pos) == pos > Opts.TotalUnits + 1

\* line 68
MaxPosExceeded(pos) == pos > Opts.TotalUnits

\* the throttle of line 73 with < for <=
ThrottledStrict(pct) == pct < lastPct

\* the throttle of line 73
Throttled(pct) == pct <= lastPct

\* a return before any call of the client: nothing is written
Return(pos, err) ==
    /\ last' = Record(pos, NoCall, err)
    /\ UNCHANGED <<channel, ts, lastPct, posted, lastOutPct, issued, returned, edits>>

\* the first post, the returned timestamp dropped
SendDropsTs(pos, pct, text, resp) ==
    /\ channel' = resp.channel
    /\ ts' = ts
    /\ lastPct' = lastPct
    /\ posted' = (posted \/ resp.ok)
    /\ lastOutPct' = IF resp.ok THEN pct ELSE lastOutPct
    /\ issued' = IF resp.ok THEN <<resp.channel, resp.ts>> ELSE issued
    /\ returned' = <<resp.channel, resp.ts>>
    /\ edits' = edits
    /\ last' = Record(pos,
                      [op |-> "Send", channel |-> channel, ts |-> "",
                       pct |-> pct, text |-> text, ok |-> resp.ok],
                      IF resp.ok THEN ErrNil ELSE ErrTransport)

\* lines 83-90: the first post
Send(pos, pct, text, resp) ==
    /\ channel' = resp.channel
    /\ ts' = resp.ts
    /\ lastPct' = lastPct
    /\ posted' = (posted \/ resp.ok)
    /\ lastOutPct' = IF resp.ok THEN pct ELSE lastOutPct
    /\ issued' = IF resp.ok THEN <<resp.channel, resp.ts>> ELSE issued
    /\ returned' = <<resp.channel, resp.ts>>
    /\ edits' = edits
    /\ last' = Record(pos,
                      [op |-> "Send", channel |-> channel, ts |-> "",
                       pct |-> pct, text |-> text, ok |-> resp.ok],
                      IF resp.ok THEN ErrNil ELSE ErrTransport)

\* the edit, the timestamp the client reissues not adopted
EditKeepsTs(pos, pct, text, resp) ==
    /\ channel' = channel
    /\ ts' = ts
    /\ lastPct' = pct
    /\ posted' = posted
    /\ lastOutPct' = IF resp.ok THEN pct ELSE lastOutPct
    /\ issued' = IF resp.ok THEN <<issued[1], resp.ts>> ELSE issued
    /\ returned' = IF resp.ok THEN <<channel, resp.ts>> ELSE <<"", "">>
    /\ edits' = edits + 1
    /\ last' = Record(pos,
                      [op |-> "Edit", channel |-> channel, ts |-> ts,
                       pct |-> pct, text |-> text, ok |-> resp.ok],
                      IF resp.ok THEN ErrNil ELSE ErrTransport)

\* lines 92-95: the edit of the message posted before; UpdateMessage answers
\* for the channel it was called with
Edit(pos, pct, text, resp) ==
    /\ channel' = channel
    /\ ts' = resp.ts
    /\ lastPct' = pct
    /\ posted' = posted
    /\ lastOutPct' = IF resp.ok THEN pct ELSE lastOutPct
    /\ issued' = IF resp.ok THEN <<issued[1], resp.ts>> ELSE issued
    /\ returned' = IF resp.ok THEN <<channel, resp.ts>> ELSE <<"", "">>
    /\ edits' = edits + 1
    /\ last' = Record(pos,
                      [op |-> "Edit", channel |-> channel, ts |-> ts,
                       pct |-> pct, text |-> text, ok |-> resp.ok],
                      IF resp.ok THEN ErrNil ELSE ErrTransport)

\* lines 77-95, once the position is valid and the percentage has advanced
Post(pos, pct, elapsed, resp) ==
    IF drawBarPanics(pct) \/ remainingPanics(pct) THEN Return(pos, Panic)
    ELSE IF ParseFails(Opts.Msg) THEN Return(pos, ErrTemplate)
    ELSE IF ts = "" THEN Send(pos, pct, msg(pct, elapsed), resp)
    ELSE Edit(pos, pct, msg(pct, elapsed), resp)

Update(pos, elapsed, resp) ==
    /\ UNCHANGED <<Opts, nanInt, race>>
    /\ IF NegativePos(pos) THEN Return(pos, ErrNegativePos)
       ELSE IF MaxPosExceeded(pos) THEN Return(pos, ErrMaxPosExceeded)
       ELSE IF Throttled(Percent(pos, Opts.TotalUnits)) THEN Return(pos, ErrNil)
       ELSE Post(pos, Percent(pos, Opts.TotalUnits), elapsed, resp)

\* any caller: any position, any time, any answer of the client
Call ==
    /\ \E pos \in Positions, elapsed \in ElapsedChoices, resp \in Responses :
          Update(pos, elapsed, resp)
    /\ UNCHANGED i

Next == Call

Spec == Init /\ [][Next]_vars

\* the loop of the README example and of TestProgressBar on a tracker with the
\* default options, every call of the client succeeding
InitExample == Init /\ Opts = DefaultOptions("Unknown Task")

LoopStep ==
    /\ i <= Opts.TotalUnits
    /\ \E elapsed \in ElapsedChoices, resp \in { r \in Responses : r.ok } :
          Update(i, elapsed, resp)
    /\ i' = i + 1

NextExample == LoopStep

SpecExample == InitExample /\ [][NextExample]_vars

\* drawBar on its own: any width, glyphs of one or two characters, any
\* percentage
BarOptions ==
    { [ Fill        |-> f,
        Empty       |-> e,
        Width       |-> w,
        TotalUnits  |-> DefaultTotalUnits,
        Msg         |-> DefaultMsg,
        Task        |-> "Task",
        ShowEstTime |-> TRUE ] :
      f \in {<<"#">>, <<"=", ">">>},
      e \in {<<"-">>, <<".", ".">>},
      w \in 1 .. MaxBarWidth }

InitFn(options) ==
    /\ \E opts \in options : New("demo", opts)
    /\ last = [fn |-> "none"]
    /\ posted = FALSE
    /\ lastOutPct = -1
    /\ issued = <<"", "">>
    /\ returned = <<"", "">>
    /\ nanInt = 0
    /\ edits = 0
    /\ race = NoRace
    /\ i = 0

InitBar == InitFn(BarOptions)

DrawBar ==
    /\ \E pct \in 0 .. 100 :
          last' = [ fn     |-> "drawBar",
                    pct    |-> pct,
                    panics |-> drawBarPanics(pct),
                    bar    |-> IF drawBarPanics(pct) THEN <<>> ELSE drawBar(pct) ]
    /\ UNCHANGED <<Opts, channel, ts, lastPct, posted, lastOutPct, issued,
                   returned, nanInt, edits, race, i>>

NextBar == DrawBar

SpecBar == InitBar /\ [][NextBar]_vars

\* line 72 on its own: any TotalUnits, any position in 0..TotalUnits
PercentOptions ==
    { [ Fill        |-> <<"#">>,
        Empty       |-> <<"-">>,
        Width       |-> DefaultWidth,
        TotalUnits  |-> t,
        Msg         |-> DefaultMsg,
        Task        |-> "Task",
        ShowEstTime |-> TRUE ] : t \in 1 .. MaxPctTotalUnits }

InitPercent == InitFn(PercentOptions)

ComputePercent ==
    /\ \E pos \in 0 .. Opts.TotalUnits :
          last' = [ fn  |-> "Percent",
                    pos |-> pos,
                    pct |-> Percent(pos, Opts.TotalUnits) ]
    /\ UNCHANGED <<Opts, channel, ts, lastPct, posted, lastOutPct, issued,
                   returned, nanInt, edits, race, i>>

NextPercent == ComputePercent

SpecPercent == InitPercent /\ [][NextPercent]_vars

-----------------------------------------------------------------------------
(* Two calls of Update on one tracker without a lock.  Every read and every
   write of a field of Progress is a step of its own; the call of the client
   and the assignment of what it returns are two steps. *)

history == <<last, posted, lastOutPct, issued, returned, edits, i>>

Goto(x, rec) == race' = [race EXCEPT !.g[x] = rec]

\* lines 64-80: the checks, the throttle (a read of lastPct) and msg
RaceEnter(x) ==
    /\ race.g[x].pc = "idle"
    /\ \E pos \in Positions :
          IF NegativePos(pos) THEN Goto(x, [pc |-> "done", ret |-> ErrNegativePos])
          ELSE IF MaxPosExceeded(pos)
               THEN Goto(x, [pc |-> "done", ret |-> ErrMaxPosExceeded])
          ELSE IF Throttled(Percent(pos, Opts.TotalUnits))
               THEN Goto(x, [pc |-> "done", ret |-> ErrNil])
          ELSE IF \/ drawBarPanics(Percent(pos, Opts.TotalUnits))
                  \/ remainingPanics(Percent(pos, Opts.TotalUnits))
               THEN Goto(x, [pc |-> "done", ret |-> Panic])
          ELSE IF ParseFails(Opts.Msg)
               THEN Goto(x, [pc |-> "done", ret |-> ErrTemplate])
          ELSE Goto(x, [pc |-> "test", pct |-> Percent(pos, Opts.TotalUnits)])
    /\ UNCHANGED <<Opts, nanInt, channel, ts, lastPct, history>>

\* line 83: the read of ts that chooses between Send and Edit
RaceTest(x) ==
    /\ race.g[x].pc = "test"
    /\ Goto(x, [ pc   |-> IF ts = "" THEN "send" ELSE "edit",
                 pct  |-> race.g[x].pct,
                 seen |-> race.writes ])
    /\ UNCHANGED <<Opts, nanInt, channel, ts, lastPct, history>>

\* line 88, right of the assignment: SendMessage posts a message, or fails
RaceSendCall(x) ==
    /\ race.g[x].pc = "send"
    /\ \E resp \in Responses :
          race' = [race EXCEPT
                     !.g[x] = [ pc |-> "sent", pct |-> race.g[x].pct,
                                seen |-> race.g[x].seen, resp |-> resp ],
                     !.messages = IF resp.ok THEN @ + 1 ELSE @ ]
    /\ UNCHANGED <<Opts, nanInt, channel, ts, lastPct, history>>

\* the assignment of line 88 with the returned timestamp dropped
RaceSendReturnDropsTs(x) ==
    /\ race.g[x].pc = "sent"
    /\ channel' = race.g[x].resp.channel
    /\ ts' = ts
    /\ race' = [race EXCEPT
                   !.g[x] = [ pc |-> "done", op |-> "Send",
                              seen |-> race.g[x].seen,
                              ret |-> IF race.g[x].resp.ok
                                      THEN ErrNil ELSE ErrTransport ],
                   !.writes = @ + 1 ]
    /\ UNCHANGED <<Opts, nanInt, lastPct, history>>

\* lines 88-89, left of the assignment: channel and ts are written
RaceSendReturn(x) ==
    /\ race.g[x].pc = "sent"
    /\ channel' = race.g[x].resp.channel
    /\ ts' = race.g[x].resp.ts
    /\ race' = [race EXCEPT
                   !.g[x] = [ pc |-> "done", op |-> "Send",
                              seen |-> race.g[x].seen,
                              ret |-> IF race.g[x].resp.ok
                                      THEN ErrNil ELSE ErrTransport ],
                   !.writes = @ + 1 ]
    /\ UNCHANGED <<Opts, nanInt, lastPct, history>>

\* line 92, right of the assignment: UpdateMessage edits the message, or fails
RaceEditCall(x) ==
    /\ race.g[x].pc = "edit"
    /\ \E resp \in Responses :
          Goto(x, [ pc |-> "edited", pct |-> race.g[x].pct,
                    seen |-> race.g[x].seen, resp |-> resp ])
    /\ UNCHANGED <<Opts, nanInt, channel, ts, lastPct, history>>

\* lines 93-95: ts and lastPct are written
RaceEditReturn(x) ==
    /\ race.g[x].pc = "edited"
    /\ ts' = race.g[x].resp.ts
    /\ lastPct' = race.g[x].pct
    /\ race' = [race EXCEPT
                   !.g[x] = [ pc |-> "done", op |-> "Edit",
                              seen |-> race.g[x].seen,
                              ret |-> IF race.g[x].resp.ok
                                      THEN ErrNil ELSE ErrTransport ],
                   !.writes = @ + 1 ]
    /\ UNCHANGED <<Opts, nanInt, channel, history>>

NextRace ==
    \E x \in Goroutines :
        \/ RaceEnter(x)
        \/ RaceTest(x)
        \/ RaceSendCall(x)
        \/ RaceSendReturn(x)
        \/ RaceEditCall(x)
        \/ RaceEditReturn(x)

SpecRace == Init /\ [][NextRace]_vars

-----------------------------------------------------------------------------
(* Properties *)

Valid(pos) == pos \in 0 .. Opts.TotalUnits

Called == last.ret # "new"

Outbound == last.call.op # "none"

\* C1: on a fresh tracker with the default options (TotalUnits 100, Width 10)
\* the first Update with a valid position calls Send, and Update(0) as the
\* first call sends percentage 0 with a bar of 10 empty glyphs.
C1_FirstUpdatePosts ==
    (last.first /\ Opts = DefaultOptions("Unknown Task") /\ Valid(last.pos)) =>
        /\ last.call.op = "Send"
        /\ last.pos = 0 =>
              /\ last.call.pct = 0
              /\ last.call.text.ProgBar = Repeat(Opts.Empty, 10)

\* C2: an Update with a position in [0, TotalUnits] whose percentage is at most
\* lastPct returns nil, calls neither Send nor Edit and leaves channel, ts and
\* lastPct as they were.
C2_ThrottleNoEffect ==
    (Called /\ Valid(last.pos)
            /\ Percent(last.pos, Opts.TotalUnits) <= last.pre.lastPct) =>
        /\ last.ret = ErrNil
        /\ last.call = NoCall
        /\ State = last.pre

\* a throttled Update at exactly the percentage of the last edit
C2_Witness ==
    /\ Called /\ last.pos > 0 /\ Valid(last.pos)
    /\ last.pre.lastPct > 0
    /\ Percent(last.pos, Opts.TotalUnits) = last.pre.lastPct
    /\ last.ret = ErrNil /\ last.call = NoCall /\ State = last.pre

\* C3: after an Update that successfully sent or edited at percentage p, an
\* immediately following Update whose percentage is again p calls neither
\* Send nor Edit.
C3_NoRepeatAfterPost ==
    (Called /\ last.prevOutPct >= 0 /\ Valid(last.pos)
            /\ Percent(last.pos, Opts.TotalUnits) = last.prevOutPct) =>
        last.call = NoCall

\* C4: a successful Send or Edit never carries a percentage lower than that of
\* an earlier successful Send or Edit.
C4_OutboundMonotone ==
    (Outbound /\ last.call.ok) => last.call.pct >= last.preOutPct

\* C5: when Send or Edit fails inside Update, channel, ts and lastPct after the
\* call are what they were before it.
C5_FailureLeavesState ==
    (Outbound /\ ~last.call.ok) => State = last.pre

\* C6: at most one Send succeeds, and every call of the client after the
\* successful Send is an Edit.
C6_SingleMessage ==
    /\ (Outbound /\ last.call.op = "Send" /\ last.call.ok) => ~last.prePosted
    /\ (Outbound /\ last.prePosted) => last.call.op = "Edit"

\* C7: the timestamp is empty if and only if no Send has succeeded yet.
C7_IdAbsentIffNotPosted == (ts = "") <=> ~posted

\* C8: an Update with a negative position returns ErrNegativePos, calls neither
\* Send nor Edit and leaves channel, ts and lastPct as they were.
C8_NegativeRejected ==
    (Called /\ last.pos < 0) =>
        /\ last.ret = ErrNegativePos
        /\ last.call = NoCall
        /\ State = last.pre

\* a negative position rejected after the message was posted and edited
C8_Witness ==
    /\ Called /\ last.pos < 0 /\ last.ret = ErrNegativePos
    /\ posted /\ ts # "" /\ lastPct > 0

C10_ExampleLoop ==
    /\ last.ret \in {"new", ErrNil}
    /\ (Outbound /\ last.call.op = "Send") => ~last.prePosted
    /\ (Outbound /\ last.call.op = "Edit") =>
          /\ last.prePosted
          /\ <<last.call.channel, last.call.ts>> = last.preIssued
    /\ posted => <<channel, ts>> = issued
    /\ i > Opts.TotalUnits =>
          /\ posted
          /\ last.call.op = "Edit"
          /\ last.call.pct = 100
          /\ last.call.text.Complete
          /\ last.call.text.Tail[1] = "Completed in"

\* the loop has ended
C10_Witness ==
    /\ i = Opts.TotalUnits + 1
    /\ last.pos = Opts.TotalUnits
    /\ last.call.op = "Edit" /\ last.call.ok /\ last.call.pct = 100

\* C11: a call of the client is a Send exactly when no timestamp is recorded,
\* and otherwise an Edit addressed to the channel and timestamp that the most
\* recent call of the client returned; Update returns nil when that call
\* succeeds and the client's error when it fails.  (One call of Update makes
\* one call of the client at most: Send and Edit are the two exits of lines
\* 83-95.)
C11_OneCallAddressed ==
    Outbound =>
        /\ (last.call.op = "Send") <=> (last.pre.ts = "")
        /\ last.call.op \in {"Send", "Edit"}
        /\ last.call.op = "Edit" =>
              <<last.call.channel, last.call.ts>> = last.preReturned
        /\ last.ret = IF last.call.ok THEN ErrNil ELSE ErrTransport
        /\ returned[2] = ts

\* a failing Edit addressed to the channel and timestamp the client returned
C11_Witness ==
    /\ Outbound /\ last.call.op = "Edit"
    /\ <<last.call.channel, last.call.ts>> = last.preReturned
    /\ last.call.ts = "t2" /\ last.call.channel = "C1"
    /\ ~last.call.ok /\ last.ret = ErrTransport

\* C12: with Options.TotalUnits = 0 the position is measured against the
\* default total: Update returns ErrMaxPosExceeded exactly for the positions
\* above 100, so that the positions 1..100 are accepted.
C12_ZeroTotalUsesDefault ==
    (Called /\ Opts.TotalUnits = 0 /\ last.pos >= 0) =>
        (last.ret = ErrMaxPosExceeded <=> last.pos > DefaultTotalUnits)

\* C13: with TotalUnits >= 1, 0 <= lastPct <= 100 in every reachable state.
C13_LastPctInRange ==
    Opts.TotalUnits >= 1 => (0 <= lastPct /\ lastPct <= 100)

\* lastPct has reached 100 by an Edit
C13_Witness ==
    /\ Opts.TotalUnits >= 1 /\ lastPct = 100
    /\ Outbound /\ last.call.op = "Edit" /\ last.pre.lastPct < 100

\* C14: a successful Send records the returned channel and timestamp and
\* leaves lastPct as it was; and once the message is posted, as long as no
\* Edit has been made (lastPct is still its initial 0), every Update with a
\* valid position whose percentage is above 0 calls the client.
C14_ThrottleStartsAfterEdit ==
    /\ (Outbound /\ last.call.op = "Send" /\ last.call.ok) =>
          /\ <<channel, ts>> = returned
          /\ lastPct = last.pre.lastPct
    /\ (Called /\ last.prePosted /\ last.pre.lastPct = 0 /\ Valid(last.pos)
               /\ Percent(last.pos, Opts.TotalUnits) > 0) =>
          Outbound

FillCount(pct) == pct \div Opts.Width

\* C15: drawBar fails for no percentage in 0..100 and no width >= 1; when the
\* fill glyphs already make up Width characters or more, no empty glyph is
\* appended.
C15_DrawBarNeverFails ==
    last.fn = "drawBar" =>
        /\ ~last.panics
        /\ Len(Opts.Fill) * FillCount(last.pct) >= Opts.Width =>
              last.bar = Repeat(Opts.Fill, FillCount(last.pct))

\* C16: with glyphs of one character, drawBar(0) is Width empty glyphs, and
\* for a percentage in 1..100 with k = percentage / Width < Width the bar is k
\* fill glyphs followed by Width - k empty glyphs, Width characters in all.
C16_BarShape ==
    (last.fn = "drawBar" /\ Len(Opts.Fill) = 1 /\ Len(Opts.Empty) = 1
        /\ (last.pct = 0 \/ FillCount(last.pct) < Opts.Width)) =>
        /\ ~last.panics
        /\ last.bar = [ j \in 1 .. Opts.Width |->
                          IF last.pct > 0 /\ j <= FillCount(last.pct)
                          THEN Opts.Fill[1] ELSE Opts.Empty[1] ]

\* a bar of a width other than 10 that is partly filled
C16_Witness ==
    /\ last.fn = "drawBar" /\ Len(Opts.Fill) = 1 /\ Len(Opts.Empty) = 1
    /\ Opts.Width = 7 /\ last.pct = 30
    /\ last.bar = <<"#", "#", "#", "#", "-", "-", "-">>

\* C17: for TotalUnits >= 1 and a position in 0..TotalUnits the percentage is
\* floor(position * 100 / TotalUnits); it is 0 only below TotalUnits / 100 and
\* 100 exactly at position = TotalUnits.
C17_PercentIsFloor ==
    last.fn = "Percent" =>
        /\ last.pct = (last.pos * 100) \div Opts.TotalUnits
        /\ last.pct = 0 <=> last.pos * 100 < Opts.TotalUnits
        /\ last.pct = 100 <=> last.pos = Opts.TotalUnits

C18_TwoPostsOnlyUnsynchronized ==
    race.messages = 2 =>
        \A x \in Goroutines :
            /\ race.g[x].pc \in {"sent", "done"}
            /\ race.g[x].seen = 0

\* both calls have returned nil from the Send branch: two messages are in the
\* channel and ts names one of them
C18_Witness ==
    /\ race.messages = 2
    /\ \A x \in Goroutines :
          /\ race.g[x].pc = "done" /\ race.g[x].op = "Send"
          /\ race.g[x].ret = ErrNil /\ race.g[x].seen = 0
    /\ ts # ""

====
